---- MODULE Spec2Model ----
(***************************************************************************)
(* Network graph builder of topo_around_buffer (src/lib/graph_tools.py).   *)
(*                                                                         *)
(* Numbers.  Planar coordinates are integers counting 1e-6 of a map unit,  *)
(* one decimal digit below the 5-decimal snapping tolerance, so that       *)
(* round(v, 5) is a real rounding to a multiple of Ulp5.  Elevations are   *)
(* integers.  Lengths are integers in the same 1e-6 unit.  The float       *)
(* factors 0.5, 0.1 and 1.0 are numerators over FactorDen, and a weight is *)
(* the numerator of a fraction over FactorDen * FactorDen.                 *)
(*                                                                         *)
(* Python values of tag columns are strings; the tokens BoolTrue,          *)
(* BoolFalse and NaN stand for the objects True, False and float('nan'),   *)
(* and Absent for a column the frame does not have.                        *)
(***************************************************************************)
EXTENDS Integers, Sequences, FiniteSets, TLC

VARIABLES
    gdf,            \* build_graph: the rows gdf.iterrows() has yielded so far
    node_index,     \* build_graph: key -> node id
    nodes,          \* build_graph: node id -> (x, y, z)
    edges,          \* build_graph: list of edge dicts
    next_node_id,   \* build_graph: sequential id counter
    G,              \* build_graph: nx.Graph, as {a, b} -> weight
    endpoint_ids,   \* history: the (a_id, b_id) of every row iterated
    dem,            \* add_z_to_lines: band 1 of the raster, (row, col) -> value
    nodata,         \* add_z_to_lines: << >> for None, <<v>> for a declared value
    z_in,           \* add_z_to_lines: the lines the comprehension has taken
    z_out,          \* add_z_to_lines: the lines line_with_z has returned
    z_status,       \* add_z_to_lines: "idle", "sampling" or "IndexError"
    gdf_raw,        \* load_data: the original line features
    split_geoms,    \* load_data: the lines unary_union returned
    load_gdf,       \* load_data: the frame gdf as the function rebinds it
    load_pc,        \* load_data: the statement the run has reached
    roads,          \* load_data: the features of temp/osm_layers/road.fgb
    trails,         \* load_data: the features of temp/osm_layers/trail.fgb
    main_pc,        \* main: "idle", "start", "exported", "done" or "aborted"
    disk            \* main: the contents of the two output files

buildVars == <<gdf, node_index, nodes, edges, next_node_id, G, endpoint_ids>>
sampleVars == <<dem, nodata, z_in, z_out, z_status>>
loadVars == <<gdf_raw, split_geoms, load_gdf, load_pc>>
mainVars == <<roads, trails, main_pc, disk>>
vars == <<buildVars, sampleVars, loadVars, mainVars>>

----------------------------------------------------------------------------
(* Bounds of the model *)

MaxSegs == 2        \* rows in the frame handed to build_graph
MaxVerts == 3       \* vertices of one line
MaxLines == 2       \* lines in the frame handed to add_z_to_lines
DemHeight == 2      \* rows of the raster
DemWidth == 2       \* columns of the raster
MaxFeatures == 2    \* original features read by load_data
MaxSplit == 2       \* lines in the result of unary_union
MaxLayer == 1       \* features in one layer file read by main

----------------------------------------------------------------------------
(* Input domains *)

Ulp5 == 10          \* 1e-5 in units of 1e-6: the last digit round(v, 5) keeps
FactorDen == 10     \* denominator of the weight factors (0.5 = 5/10, 0.1 = 1/10)

\* Endpoints (x, y, z).  The first two round to the same (x, y) and differ in
\* raw x and in z.  The third differs from the first in the 6th decimal of x
\* only and rounds to another x.  The fourth differs from the third in the 5th
\* decimal of x and rounds to the same x.  The fifth differs from the first in
\* rounded y.
Origin == <<4, 4, 0>>
Points == {Origin, <<0, 4, 1>>, <<6, 4, 0>>, <<14, 4, 1>>, <<4, 6, 1>>}
InteriorPoints == {<<1, 8, 2>>}

Absent == "<absent>"
NaN == "<nan>"
BoolTrue == "<True>"
BoolFalse == "<False>"

Highways == {"path", "track", "footway", "residential", NaN, Absent}
MainTrails == {"yes", "no", BoolTrue, BoolFalse, NaN, Absent}

\* Two-vertex lines between any two endpoints, and lines that leave Origin,
\* pass interior vertices from InteriorPoints and end at any endpoint (at
\* Origin: a closed loop).
Geoms ==
    { <<a, b>> : a \in Points, b \in Points }
    \cup
    UNION { { <<Origin>> \o mid \o <<b>> : b \in Points,
                                            mid \in [1..k -> InteriorPoints] }
            : k \in 1..(MaxVerts - 2) }

\* A straight line of planar length 100.
TagGeom == << <<0, 0, 0>>, <<100, 0, 0>> >>

\* Every line with the tags of a road, and one line with every highway value
\* and, as a path, with every value of the flag.
Rows ==
    { [geometry |-> g, highway |-> "residential", main_trail |-> Absent] : g \in Geoms }
    \cup
    { [geometry |-> TagGeom, highway |-> h, main_trail |-> Absent] : h \in Highways }
    \cup
    { [geometry |-> TagGeom, highway |-> "path", main_trail |-> m] : m \in MainTrails }

\* The raster: a north-up affine transform (x = a*col + c, y = e*row + f), the
\* nodata value the DEM of this pipeline declares (or none declared), and cells
\* that hold an elevation of their own, one of them at most holding nodata.
Transform == [a |-> 20, c |-> 0, e |-> -20, f |-> 0]
DemNodata == -32768
DemCells == (0..(DemHeight - 1)) \X (0..(DemWidth - 1))
Elevation(c) == 100 + 10 * c[1] + c[2]
Raster(holes) == [c \in DemCells |-> IF c \in holes THEN DemNodata ELSE Elevation(c)]
Rasters == {Raster({})} \cup { Raster({n}) : n \in DemCells }
NodataDecls == {<< >>, <<DemNodata>>}

\* Vertices (x, y) on and around the raster: cells (0, 0) and (0, 1), column
\* -1, row -1, column DemWidth and row DemHeight.
SamplePoints == { <<0, 0>>, <<Transform.a, 0>>,
                  <<-Transform.a, 0>>, <<0, -Transform.e>>,
                  <<Transform.a * DemWidth, 0>>, <<0, Transform.e * DemHeight>> }
SampleLines == { <<p, q>> : p \in SamplePoints, q \in SamplePoints }

\* The original features of load_data: straight 2D lines on the x axis, one
\* inside another, with the tags of a trail and of a road.
OrigGeoms == { << <<0, 0>>, <<20, 0>> >>,
               << <<10, 0>>, <<20, 0>> >> }
OrigTags == { [highway |-> "path", main_trail |-> "yes"],
              [highway |-> "residential", main_trail |-> "no"] }
Features == { [geometry |-> g, highway |-> t.highway, main_trail |-> t.main_trail] :
                g \in OrigGeoms, t \in OrigTags }
RawFrames == UNION { [1..k -> Features] : k \in 1..MaxFeatures }

\* Vertices unary_union may return: those of the lattice the originals lie on,
\* and a node that rounding placed off the originals.
LinePoints == {<<0, 0>>, <<10, 0>>, <<20, 0>>}
OffPoints == {<<10, -10>>}

\* The raster load_data samples: it covers every vertex above.
LoadDem == Raster({<<0, 0>>})

\* The layer files of main.  A geometry is its type and its parts, each part a
\* sequence of planar vertices: a line A on the x axis, a line B that crosses
\* it at (10, 0), a line A2 that runs beside A closer than the snapping
\* tolerance, a two-part line made of A and B, a point and a polygon.
LineA == << <<0, 0>>, <<20, 0>> >>
LineB == << <<10, -10>>, <<10, 10>> >>
LineA2 == << <<0, 2>>, <<20, 2>> >>
LayerGeoms ==
    { [type |-> "LineString", parts |-> <<LineA>>],
      [type |-> "LineString", parts |-> <<LineB>>],
      [type |-> "LineString", parts |-> <<LineA2>>],
      [type |-> "MultiLineString", parts |-> <<LineA, LineB>>],
      [type |-> "Point", parts |-> << << <<10, 0>> >> >>],
      [type |-> "Polygon", parts |-> << << <<0, 0>>, <<20, 0>>, <<10, 10>>, <<0, 0>> >> >>] }
RoadTags == [highway |-> "residential", main_trail |-> "no"]
TrailTags == [highway |-> "path", main_trail |-> "yes"]
LayerFiles(tags) ==
    UNION { [1..k -> { [geometry |-> g, highway |-> tags.highway,
                        main_trail |-> tags.main_trail] : g \in LayerGeoms }]
            : k \in 0..MaxLayer }

----------------------------------------------------------------------------
(* Pure helpers *)

\* Python round(v, 5): nearest multiple of 1e-5, ties to the even digit.
round5(v) ==
    LET q == v \div Ulp5
        r == v % Ulp5
    IN  IF 2 * r < Ulp5 THEN Ulp5 * q
        ELSE IF 2 * r > Ulp5 THEN Ulp5 * (q + 1)
        ELSE IF q % 2 = 0 THEN Ulp5 * q ELSE Ulp5 * (q + 1)

abs(v) == IF v < 0 THEN -v ELSE v

\* np.hypot(dx, dy), to the model's unit (rounded down).
hypot(dx, dy) ==
    LET n == dx * dx + dy * dy
    IN  CHOOSE r \in 0..(abs(dx) + abs(dy)) : r * r <= n /\ (r + 1) * (r + 1) > n

Reverse(s) == [i \in 1..Len(s) |-> s[Len(s) + 1 - i]]

\* shapely LineString.length: the sum of the planar lengths of the steps.
RECURSIVE geom_length(_)
geom_length(coords) ==
    IF Len(coords) < 2 THEN 0
    ELSE hypot(coords[2][1] - coords[1][1], coords[2][2] - coords[1][2])
         + geom_length(Tail(coords))

\* row.get(col, default)
RowGet(row, col, default) == IF row[col] = Absent THEN default ELSE row[col]

----------------------------------------------------------------------------
(* build_graph *)

\* Mutant: the elevation is part of the key.
node_key_with_z(c) == <<round5(c[1]), round5(c[2]), c[3]>>

\* Mutant: the key cuts the coordinates off after the 5th decimal.
node_key_truncated(c) == <<Ulp5 * (c[1] \div Ulp5), Ulp5 * (c[2] \div Ulp5)>>

node_key(c) == <<round5(c[1]), round5(c[2])>>

\* Mutant: the counter advances by two on allocation.
get_node_id_gap(t, c) ==
    LET key == node_key(c)
    IN  IF key \notin DOMAIN t.node_index
        THEN [node_index   |-> (key :> t.next_node_id) @@ t.node_index,
              nodes        |-> (t.next_node_id :> c) @@ t.nodes,
              next_node_id |-> t.next_node_id + 2,
              id           |-> t.next_node_id]
        ELSE [node_index   |-> t.node_index,
              nodes        |-> t.nodes,
              next_node_id |-> t.next_node_id,
              id           |-> t.node_index[key]]

\* Mutant: a call for a known key still puts a spare entry in the node table.
get_node_id_spare(t, c) ==
    LET key == node_key(c)
    IN  IF key \notin DOMAIN t.node_index
        THEN [node_index   |-> (key :> t.next_node_id) @@ t.node_index,
              nodes        |-> (t.next_node_id :> c) @@ t.nodes,
              next_node_id |-> t.next_node_id + 1,
              id           |-> t.next_node_id]
        ELSE [node_index   |-> t.node_index,
              nodes        |-> (t.next_node_id :> c) @@ t.nodes,
              next_node_id |-> t.next_node_id + 1,
              id           |-> t.node_index[key]]

\* get_node_id on the table t = [node_index, nodes, next_node_id]; the result
\* carries the updated table and the id returned.
get_node_id(t, c) ==
    LET key == node_key(c)
    IN  IF key \notin DOMAIN t.node_index
        THEN [node_index   |-> (key :> t.next_node_id) @@ t.node_index,
              nodes        |-> (t.next_node_id :> c) @@ t.nodes,
              next_node_id |-> t.next_node_id + 1,
              id           |-> t.next_node_id]
        ELSE [node_index   |-> t.node_index,
              nodes        |-> t.nodes,
              next_node_id |-> t.next_node_id,
              id           |-> t.node_index[key]]

RECURSIVE measures_loop(_, _, _, _, _, _)
measures_loop(coords, i, dist, gain, loss, measures) ==
    IF i > Len(coords) THEN measures
    ELSE LET seg_dist == hypot(coords[i][1] - coords[i - 1][1],
                               coords[i][2] - coords[i - 1][2])
             dz == coords[i][3] - coords[i - 1][3]
             dist2 == dist + seg_dist
             gain2 == IF dz > 0 THEN gain + dz ELSE gain
             loss2 == IF dz > 0 THEN loss ELSE loss + abs(dz)
         IN  measures_loop(coords, i + 1, dist2, gain2, loss2,
                           Append(measures, <<dist2, gain2, loss2>>))

\* Mutant: every elevation change is booked as ascent.
compute_measures_all_gain(coords) ==
    LET m == measures_loop(coords, 2, 0, 0, 0, << <<0, 0, 0>> >>)
    IN  [i \in 1..Len(m) |-> <<m[i][1], m[i][2] + m[i][3], 0>>]

\* Mutant: the list does not start with the (0, 0, 0) entry.
compute_measures_no_origin(coords) ==
    Tail(measures_loop(coords, 2, 0, 0, 0, << <<0, 0, 0>> >>))

\* Mutant: a descent is added to the loss with its sign.
compute_measures_signed_loss(coords) ==
    LET m == measures_loop(coords, 2, 0, 0, 0, << <<0, 0, 0>> >>)
    IN  [i \in 1..Len(m) |-> <<m[i][1], m[i][2], -m[i][3]>>]

compute_measures(coords) ==
    measures_loop(coords, 2, 0, 0, 0, << <<0, 0, 0>> >>)

\* Mutant: "footway" is missing from the table.
TRAIL_FACTOR_no_footway(highway_type) ==
    IF highway_type \in {"path", "track"} THEN 5 ELSE FactorDen

TRAIL_FACTOR(highway_type) ==
    IF highway_type \in {"path", "track", "footway"} THEN 5 ELSE FactorDen

MAIN_TRAIL_FACTOR == 1

\* Mutant: the flag is tested for Python truthiness.
priority_factor_truthy(row) ==
    IF RowGet(row, "main_trail", "") \notin {"", BoolFalse}
    THEN MAIN_TRAIL_FACTOR ELSE FactorDen

priority_factor(row) ==
    LET is_main == RowGet(row, "main_trail", "") = "yes"
    IN  IF is_main THEN MAIN_TRAIL_FACTOR ELSE FactorDen

edge_weight(row) ==
    geom_length(row.geometry)
        * TRAIL_FACTOR(RowGet(row, "highway", ""))
        * priority_factor(row)

\* Mutant: the graph is left as it was.
add_edge_dropped(g, a, b, w) == g

\* The value of an nx.Graph after add_edge(a, b, weight=w).
add_edge(g, a, b, w) ==
    [p \in DOMAIN g \cup {{a, b}} |-> IF p = {a, b} THEN w ELSE g[p]]

\* Mutant: no segment is skipped.
skip_segment_never(a_id, b_id) == FALSE

\* Whether the loop body skips the row.
skip_segment(a_id, b_id) == a_id = b_id

InitBuild ==
    /\ gdf = << >>
    /\ node_index = << >>
    /\ nodes = << >>
    /\ edges = << >>
    /\ next_node_id = 0
    /\ G = << >>
    /\ endpoint_ids = << >>

SampleIdle ==
    /\ dem = << >>
    /\ nodata = << >>
    /\ z_in = << >>
    /\ z_out = << >>
    /\ z_status = "idle"

LoadIdle ==
    /\ gdf_raw = << >>
    /\ split_geoms = << >>
    /\ load_gdf = << >>
    /\ load_pc = "idle"

\* A file that does not exist.
Missing == "<missing>"

MainIdle ==
    /\ roads = << >>
    /\ trails = << >>
    /\ main_pc = "idle"
    /\ disk = [f \in {"graph.bin", "graph_debug.geojson"} |-> Missing]

Init == InitBuild /\ SampleIdle /\ LoadIdle /\ MainIdle

\* The body of "for _, row in gdf.iterrows()" for one row.
BuildRow(row) ==
    /\ LET coords == row.geometry
           t0 == [node_index |-> node_index, nodes |-> nodes,
                  next_node_id |-> next_node_id]
           ta == get_node_id(t0, coords[1])
           tb == get_node_id(ta, coords[Len(coords)])
           a_id == ta.id
           b_id == tb.id
           weight == edge_weight(row)
       IN  /\ gdf' = Append(gdf, row)
           /\ node_index' = tb.node_index
           /\ nodes' = tb.nodes
           /\ next_node_id' = tb.next_node_id
           /\ endpoint_ids' = Append(endpoint_ids, <<a_id, b_id>>)
           /\ IF skip_segment(a_id, b_id)
              THEN UNCHANGED <<edges, G>>
              ELSE /\ edges' = Append(edges,
                        [start |-> a_id, end |-> b_id, weight |-> weight,
                         geometry |-> coords,
                         measures_forward |-> compute_measures(coords),
                         measures_reverse |-> compute_measures(Reverse(coords))])
                   /\ G' = add_edge(G, a_id, b_id, weight)
    /\ UNCHANGED <<sampleVars, loadVars, mainVars>>

\* One iteration of the loop over a frame of at most MaxSegs rows.
BuildStep(row) ==
    /\ Len(gdf) < MaxSegs
    /\ BuildRow(row)

Next ==
    \E row \in Rows : BuildStep(row)

Spec == Init /\ [][Next]_vars

----------------------------------------------------------------------------
(* add_z_to_lines *)

\* round(n / d) for d > 0: nearest integer, ties to even.
round_div(n, d) ==
    LET q == n \div d
        r == n % d
    IN  IF 2 * r < d THEN q
        ELSE IF 2 * r > d THEN q + 1
        ELSE IF q % 2 = 0 THEN q ELSE q + 1

\* rasterio.transform.rowcol(transform, x, y, op=round) of one vertex.
rowcol(x, y) ==
    <<round_div(Transform.f - y, -Transform.e), round_div(x - Transform.c, Transform.a)>>

\* numpy integer indexing along an axis of the given size: a negative index
\* counts from the end, an index outside [-size, size) raises IndexError.
index_in_bounds(i, size) == -size <= i /\ i < size

wrap_index(i, size) == IF i < 0 THEN i + size ELSE i

\* Mutant: the sampled value is returned as it is.
substitute_nodata_never(zv, nd) == zv

\* np.where(z == nodata, 0.0, z), applied when nodata is not None.
substitute_nodata(zv, nd) == IF nd # << >> /\ zv = nd[1] THEN 0 ELSE zv

\* Whether dem[rows, cols] raises IndexError for the vertices of the line.
raises_index_error(line) ==
    \E i \in 1..Len(line) :
        LET rc == rowcol(line[i][1], line[i][2])
        IN  \/ ~index_in_bounds(rc[1], DemHeight)
            \/ ~index_in_bounds(rc[2], DemWidth)

\* The cell dem[row, col] reads.
dem_at(rc) == dem[<<wrap_index(rc[1], DemHeight), wrap_index(rc[2], DemWidth)>>]

\* line_with_z(line) when the indexing does not raise: the line with the
\* sampled elevations.
line_with_z(line) ==
    [i \in 1..Len(line) |->
        <<line[i][1], line[i][2],
          substitute_nodata(dem_at(rowcol(line[i][1], line[i][2])), nodata)>>]

InitSample ==
    /\ InitBuild
    /\ LoadIdle
    /\ MainIdle
    /\ dem \in Rasters
    /\ nodata \in NodataDecls
    /\ z_in = << >>
    /\ z_out = << >>
    /\ z_status = "sampling"

\* One element of the list comprehension over gdf.geometry.
SampleLine(line) ==
    /\ z_status = "sampling"
    /\ Len(z_in) < MaxLines
    /\ z_in' = Append(z_in, line)
    /\ IF raises_index_error(line)
       THEN z_status' = "IndexError" /\ UNCHANGED z_out
       ELSE z_out' = Append(z_out, line_with_z(line)) /\ UNCHANGED z_status
    /\ UNCHANGED <<dem, nodata>>
    /\ UNCHANGED <<buildVars, loadVars, mainVars>>

NextSample ==
    \E line \in SampleLines : SampleLine(line)

SpecSample == InitSample /\ [][NextSample]_vars

----------------------------------------------------------------------------
(* load_data *)

\* Whether point p lies on the straight segment from b1 to b2.
on_segment(p, b1, b2) ==
    /\ (b2[1] - b1[1]) * (p[2] - b1[2]) = (b2[2] - b1[2]) * (p[1] - b1[1])
    /\ (b1[1] <= p[1] /\ p[1] <= b2[1]) \/ (b2[1] <= p[1] /\ p[1] <= b1[1])
    /\ (b1[2] <= p[2] /\ p[2] <= b2[2]) \/ (b2[2] <= p[2] /\ p[2] <= b1[2])

\* shapely a.within(b) for lines: a is not a single point and every step of a
\* lies on a step of b.
within(a, b) ==
    /\ \E i \in 1..Len(a) : a[i] # a[1]
    /\ \A i \in 1..(Len(a) - 1) : \E j \in 1..(Len(b) - 1) :
          on_segment(a[i], b[j], b[j + 1]) /\ on_segment(a[i + 1], b[j], b[j + 1])

\* The lines unary_union can return for the originals: pieces that lie on an
\* original, and pieces that run from a vertex of an original to a node that
\* the rounding of an intersection placed off the originals.
union_pieces(raw) ==
    { g \in LinePoints \X LinePoints :
        g[1][1] < g[2][1] /\ \E k \in 1..Len(raw) : within(g, raw[k].geometry) }
    \cup
    { <<raw[k].geometry[1], q>> : k \in 1..Len(raw), q \in OffPoints }

\* Mutant: an inner join, which has no row for a left row nothing matches.
RECURSIVE sjoin_inner(_, _, _)
sjoin_inner(left, right, i) ==
    IF i > Len(left) THEN << >>
    ELSE LET hits == { j \in 1..Len(right) : within(left[i], right[j].geometry) }
             rows == [n \in 1..Cardinality(hits) |->
                            LET j == CHOOSE h \in hits :
                                        Cardinality({ g \in hits : g < h }) = n - 1
                            IN  [geometry |-> left[i], index_right |-> <<j>>,
                                 highway |-> right[j].highway,
                                 main_trail |-> right[j].main_trail]]
         IN  rows \o sjoin_inner(left, right, i + 1)

\* The rows of gpd.sjoin(left, right, how="left", predicate="within") for the
\* left rows i..: one row per matching right row in right order, or one row of
\* missing values when nothing matches.
RECURSIVE sjoin_left(_, _, _)
sjoin_left(left, right, i) ==
    IF i > Len(left) THEN << >>
    ELSE LET hits == { j \in 1..Len(right) : within(left[i], right[j].geometry) }
             rows == IF hits = {}
                     THEN << [geometry |-> left[i], index_right |-> << >>,
                              highway |-> NaN, main_trail |-> NaN] >>
                     ELSE [n \in 1..Cardinality(hits) |->
                            LET j == CHOOSE h \in hits :
                                        Cardinality({ g \in hits : g < h }) = n - 1
                            IN  [geometry |-> left[i], index_right |-> <<j>>,
                                 highway |-> right[j].highway,
                                 main_trail |-> right[j].main_trail]]
         IN  rows \o sjoin_left(left, right, i + 1)

\* Mutant: every row is kept.
drop_duplicates_never(rows) == rows

\* gdf.drop_duplicates(subset=['geometry']): the first row of every geometry.
drop_duplicates(rows) ==
    LET keep == { i \in 1..Len(rows) :
                    \A k \in 1..(i - 1) : rows[k].geometry # rows[i].geometry }
    IN  [n \in 1..Cardinality(keep) |->
            rows[CHOOSE i \in keep : Cardinality({ k \in keep : k < i }) = n - 1]]

snap_and_ensure_3d(line) ==
    [i \in 1..Len(line) |->
        <<round5(line[i][1]), round5(line[i][2]),
          IF Len(line[i]) = 3 THEN line[i][3] ELSE 0>>]

\* geometry.is_valid & ~geometry.is_empty of a line: it has two distinct points.
is_valid_line(line) ==
    \E i \in 1..Len(line), j \in 1..Len(line) :
        <<line[i][1], line[i][2]>> # <<line[j][1], line[j][2]>>

SetGeometry(row, g) == [row EXCEPT !.geometry = g]

InitLoad ==
    /\ InitBuild
    /\ MainIdle
    /\ dem = LoadDem
    /\ nodata = <<DemNodata>>
    /\ z_in = << >>
    /\ z_out = << >>
    /\ z_status = "idle"
    /\ gdf_raw \in RawFrames
    /\ split_geoms = << >>
    /\ load_gdf = << >>
    /\ load_pc = "read"

\* The results unary_union can have: up to MaxSplit distinct pieces.
split_outcomes(raw) ==
    { sg \in UNION { [1..k -> union_pieces(raw)] : k \in 1..MaxSplit } :
        \A i \in 1..Len(sg), j \in 1..Len(sg) : i # j => sg[i] # sg[j] }

\* merged_lines = unary_union(gdf_raw.geometry); split_geoms = its lines.
Noderize(sg) ==
    /\ load_pc = "read"
    /\ split_geoms' = sg
    /\ load_pc' = "noded"
    /\ UNCHANGED <<gdf_raw, load_gdf>>
    /\ UNCHANGED <<buildVars, sampleVars, mainVars>>

\* new_gdf, sjoin and drop_duplicates.
Join ==
    /\ load_pc = "noded"
    /\ load_gdf' = drop_duplicates(sjoin_left(split_geoms, gdf_raw, 1))
    /\ load_pc' = "joined"
    /\ UNCHANGED <<gdf_raw, split_geoms>>
    /\ UNCHANGED <<buildVars, sampleVars, mainVars>>

\* gdf = add_z_to_lines(gdf, dem_path)
Elevate ==
    /\ load_pc = "joined"
    /\ IF \E i \in 1..Len(load_gdf) : raises_index_error(load_gdf[i].geometry)
       THEN load_pc' = "IndexError" /\ UNCHANGED load_gdf
       ELSE /\ load_gdf' = [i \in 1..Len(load_gdf) |->
                    SetGeometry(load_gdf[i], line_with_z(load_gdf[i].geometry))]
            /\ load_pc' = "sampled"
    /\ UNCHANGED <<gdf_raw, split_geoms>>
    /\ UNCHANGED <<buildVars, sampleVars, mainVars>>

\* Snapping, the validity filter, and the return of the frame.
SnapReturn ==
    /\ load_pc = "sampled"
    /\ LET snapped == [i \in 1..Len(load_gdf) |->
                SetGeometry(load_gdf[i], snap_and_ensure_3d(load_gdf[i].geometry))]
           valid(row) == is_valid_line(row.geometry)
       IN  load_gdf' = SelectSeq(snapped, valid)
    /\ load_pc' = "returned"
    /\ UNCHANGED <<gdf_raw, split_geoms>>
    /\ UNCHANGED <<buildVars, sampleVars, mainVars>>

\* main: build_graph iterates over the frame load_data returned.
BuildFromLoad ==
    /\ load_pc = "returned"
    /\ Len(gdf) < Len(load_gdf)
    /\ BuildStep(load_gdf[Len(gdf) + 1])

NextLoad ==
    \/ \E sg \in split_outcomes(gdf_raw) : Noderize(sg)
    \/ Join
    \/ Elevate
    \/ SnapReturn
    \/ BuildFromLoad

SpecLoad == InitLoad /\ [][NextLoad]_vars

----------------------------------------------------------------------------
(* load_data: reading and normalising the layers *)

\* pd.concat([roads, trails], ignore_index=True)
concat(a, b) == a \o b

\* Mutant: multi-part geometries are left as they are.
explode_never(rows) == rows

\* gdf_raw.explode(index_parts=False): a multi-part geometry becomes one row per
\* part, each with the columns of its parent; other rows stay.
RECURSIVE explode(_)
explode(rows) ==
    IF rows = << >> THEN << >>
    ELSE LET row == Head(rows)
             g == row.geometry
             single == CASE g.type = "MultiLineString" -> "LineString"
                         [] g.type = "MultiPoint" -> "Point"
                         [] g.type = "MultiPolygon" -> "Polygon"
                         [] OTHER -> g.type
             out == IF single = g.type THEN <<row>>
                    ELSE [n \in 1..Len(g.parts) |->
                            [row EXCEPT !.geometry = [type |-> single,
                                                      parts |-> <<g.parts[n]>>]]]
         IN  out \o explode(Tail(rows))

\* gdf_raw[gdf_raw.geometry.type == "LineString"].copy(); the geometry of a row
\* kept is written as the vertex sequence of its line.
select_linestrings(rows) ==
    LET is_line(row) == row.geometry.type = "LineString"
        kept == SelectSeq(rows, is_line)
    IN  [n \in 1..Len(kept) |-> [kept[n] EXCEPT !.geometry = kept[n].geometry.parts[1]]]

----------------------------------------------------------------------------
(* load_data: unary_union of lines whose crossings are exact *)

Vertices(lines) == UNION { { l[i] : i \in 1..Len(l) } : l \in lines }

\* Where two axis-parallel lines can meet: at a vertex, or at the x of one
\* vertex and the y of another.
MeetingPoints(lines) ==
    Vertices(lines) \cup { <<v[1], w[2]>> : v \in Vertices(lines), w \in Vertices(lines) }

parallel(l, m) ==
    (l[2][1] - l[1][1]) * (m[2][2] - m[1][2]) = (l[2][2] - l[1][2]) * (m[2][1] - m[1][1])

\* The nodes on line l: its ends, the points where a line crosses it, and the
\* ends of other lines that lie on it.
nodes_on(l, lines) ==
    {l[1], l[2]} \cup
    { p \in MeetingPoints(lines) :
        /\ on_segment(p, l[1], l[2])
        /\ \E m \in lines \ {l} :
              /\ on_segment(p, m[1], m[2])
              /\ ~parallel(l, m) \/ p \in {m[1], m[2]} }

\* The position of point p along line l.
along(p, l) == (p[1] - l[1][1]) * (l[2][1] - l[1][1]) + (p[2] - l[1][2]) * (l[2][2] - l[1][2])

\* Line l cut at its nodes, each piece in the direction of l.
cut_at_nodes(l, lines) ==
    LET ns == nodes_on(l, lines)
    IN  { <<p, q>> : p \in ns, q \in ns } \cap
        { pq \in ns \X ns :
            /\ along(pq[1], l) < along(pq[2], l)
            /\ \A r \in ns : ~(along(pq[1], l) < along(r, l) /\ along(r, l) < along(pq[2], l)) }

\* The lines of a set as a list in lexicographic order of their vertices.
line_before(g, h) ==
    LET k == CHOOSE i \in 1..4 :
                /\ <<g[1][1], g[1][2], g[2][1], g[2][2]>>[i] # <<h[1][1], h[1][2], h[2][1], h[2][2]>>[i]
                /\ \A n \in 1..(i - 1) :
                      <<g[1][1], g[1][2], g[2][1], g[2][2]>>[n] = <<h[1][1], h[1][2], h[2][1], h[2][2]>>[n]
    IN  <<g[1][1], g[1][2], g[2][1], g[2][2]>>[k] < <<h[1][1], h[1][2], h[2][1], h[2][2]>>[k]

RECURSIVE geoms_list(_)
geoms_list(S) ==
    IF S = {} THEN << >>
    ELSE LET first == CHOOSE g \in S : \A h \in S \ {g} : line_before(g, h)
         IN  <<first>> \o geoms_list(S \ {first})

\* Mutant: the lines are returned as they were given, uncut.
unary_union_uncut(raw) == geoms_list({ raw[k].geometry : k \in 1..Len(raw) })

\* unary_union(gdf_raw.geometry) and the list of its lines, for straight
\* axis-parallel lines with vertices and crossings on representable
\* coordinates: every line cut at its nodes, equal pieces merged into one.
unary_union(raw) ==
    LET lines == { raw[k].geometry : k \in 1..Len(raw) }
    IN  geoms_list(UNION { cut_at_nodes(l, lines) : l \in lines })

----------------------------------------------------------------------------
(* export_graph_flatbuffer, export_debug_geojson and main *)

\* builder.Prepend*Slot(slot, v, default): a field that holds the default is
\* left out of the table.
Slot(v, default) == IF v = default THEN << >> ELSE <<v>>

\* nodes.items(): the entries in insertion order, which is the order of ids.
items(tbl) == [n \in 1..Cardinality(DOMAIN tbl) |-> <<n - 1, tbl[n - 1]>>]

\* Node.Start ... Node.End for one entry.  An id is a count of nodes of one run
\* and fits the 32-bit field.
NodeTable(item) ==
    [id |-> Slot(item[1], 0), x |-> Slot(item[2][1], 0),
     y |-> Slot(item[2][2], 0), z |-> Slot(item[2][3], 0)]

\* builder.PrependUOffsetTRelative for each element of the list in turn: each
\* goes in front of what the vector holds.
RECURSIVE prepend_all(_, _)
prepend_all(list, vec) ==
    IF list = << >> THEN vec
    ELSE prepend_all(Tail(list), <<Head(list)>> \o vec)

\* Mutant: the offsets are prepended in list order.
build_vector_unreversed(offsets) == prepend_all(offsets, << >>)

\* StartVector; for off in reversed(offsets): Prepend; EndVector.
build_vector(offsets) == prepend_all(Reverse(offsets), << >>)

\* geometry.wkb of a 3D line: byte order, type, number of points, and the
\* ordinates x, y, z of the points one after another.
wkb(coords) ==
    [byte_order |-> 1, type |-> "LineString Z", num_points |-> Len(coords),
     ordinates |-> [k \in 1..(3 * Len(coords)) |-> coords[(k + 2) \div 3][((k - 1) % 3) + 1]]]

\* build_m_vec(m_list)
build_m_vec(m_list) ==
    build_vector([n \in 1..Len(m_list) |->
        [cumulative_distance |-> Slot(m_list[n][1], 0),
         cumulative_gain |-> Slot(m_list[n][2], 0),
         cumulative_loss |-> Slot(m_list[n][3], 0)]])

\* Edge.Start ... Edge.End for one edge.
EdgeTable(e) ==
    [start_node_id |-> Slot(e.start, 0),
     end_node_id |-> Slot(e.end, 0),
     weight |-> Slot(e.weight, 0),
     geometry_wkb |-> wkb(e.geometry),
     measures_forward |-> build_m_vec(e.measures_forward),
     measures_reverse |-> build_m_vec(e.measures_reverse)]

\* builder.Output() of export_graph_flatbuffer(nodes, edges, ...).
graph_buffer(node_tbl, edge_list) ==
    [nodes |-> build_vector([n \in 1..Cardinality(DOMAIN node_tbl) |->
                                NodeTable(items(node_tbl)[n])]),
     edges |-> build_vector([j \in 1..Len(edge_list) |-> EdgeTable(edge_list[j])])]

\* The document export_debug_geojson(edges, ...) dumps.
debug_document(edge_list) ==
    [type |-> "FeatureCollection",
     features |-> [j \in 1..Len(edge_list) |->
        [type |-> "Feature",
         geometry |-> [type |-> "LineString", coordinates |-> edge_list[j].geometry],
         properties |-> [start |-> edge_list[j].start, end |-> edge_list[j].end,
                         weight |-> edge_list[j].weight]]]]

\* A file that open(path, "w") created and that did not receive all its bytes.
Partial == "<partial>"

\* The generated readers of the binary format: a field left out reads as its
\* default.
Field(slot, default) == IF slot = << >> THEN default ELSE slot[1]

\* Node record n of the buffer, as (id, (x, y, z)).
read_node(buf, n) ==
    <<Field(buf.nodes[n].id, 0),
      <<Field(buf.nodes[n].x, 0), Field(buf.nodes[n].y, 0), Field(buf.nodes[n].z, 0)>>>>

read_measures(vec) ==
    [n \in 1..Len(vec) |->
        <<Field(vec[n].cumulative_distance, 0), Field(vec[n].cumulative_gain, 0),
          Field(vec[n].cumulative_loss, 0)>>]

\* shapely.wkb.loads of the geometry bytes.
wkb_loads(w) ==
    [i \in 1..w.num_points |->
        <<w.ordinates[3 * i - 2], w.ordinates[3 * i - 1], w.ordinates[3 * i]>>]

\* Edge record j of the buffer, as the dict build_graph made.
read_edge(buf, j) ==
    [start |-> Field(buf.edges[j].start_node_id, 0),
     end |-> Field(buf.edges[j].end_node_id, 0),
     weight |-> Field(buf.edges[j].weight, 0),
     geometry |-> wkb_loads(buf.edges[j].geometry_wkb),
     measures_forward |-> read_measures(buf.edges[j].measures_forward),
     measures_reverse |-> read_measures(buf.edges[j].measures_reverse)]

InitMain ==
    /\ InitBuild
    /\ dem = LoadDem
    /\ nodata = <<DemNodata>>
    /\ z_in = << >>
    /\ z_out = << >>
    /\ z_status = "idle"
    /\ gdf_raw = << >>
    /\ split_geoms = << >>
    /\ load_gdf = << >>
    /\ load_pc = "open"
    /\ roads \in LayerFiles(RoadTags)
    /\ trails \in LayerFiles(TrailTags)
    /\ \E row \in { roads[k] : k \in 1..Len(roads) } \cup { trails[k] : k \in 1..Len(trails) } :
          row.geometry.type \in {"LineString", "MultiLineString"}
    /\ main_pc = "start"
    /\ disk = [f \in {"graph.bin", "graph_debug.geojson"} |-> Missing]

\* load_data up to the normalised frame: read, concat, explode, filter.
ReadLayers ==
    /\ main_pc = "start"
    /\ load_pc = "open"
    /\ gdf_raw' = select_linestrings(explode(concat(roads, trails)))
    /\ load_pc' = "read"
    /\ UNCHANGED <<split_geoms, load_gdf>>
    /\ UNCHANGED <<buildVars, sampleVars, roads, trails, main_pc, disk>>

\* gpd.read_file raises: a layer file is missing or unreadable.
ReadFails ==
    /\ main_pc = "start"
    /\ load_pc = "open"
    /\ load_pc' = "IOError"
    /\ main_pc' = "aborted"
    /\ UNCHANGED <<gdf_raw, split_geoms, load_gdf>>
    /\ UNCHANGED <<buildVars, sampleVars, roads, trails, disk>>

\* build_graph(gdf) on the frame load_data returned, one row at a time.
BuildFromMain ==
    /\ main_pc = "start"
    /\ load_pc = "returned"
    /\ Len(gdf) < Len(load_gdf)
    /\ BuildRow(load_gdf[Len(gdf) + 1])

BuildDone == load_pc = "returned" /\ Len(gdf) = Len(load_gdf)

\* export_graph_flatbuffer(nodes, edges, output_dir / "graph.bin") completes.
ExportFlatbuffer ==
    /\ main_pc = "start"
    /\ BuildDone
    /\ disk' = [disk EXCEPT !["graph.bin"] = graph_buffer(nodes, edges)]
    /\ main_pc' = "exported"
    /\ UNCHANGED <<buildVars, sampleVars, loadVars, roads, trails>>

\* open(output_path, "wb") or f.write raises: before the file exists, or after
\* open has created it.
ExportFlatbufferFails(created) ==
    /\ main_pc = "start"
    /\ BuildDone
    /\ disk' = IF created THEN [disk EXCEPT !["graph.bin"] = Partial] ELSE disk
    /\ main_pc' = "aborted"
    /\ UNCHANGED <<buildVars, sampleVars, loadVars, roads, trails>>

\* export_debug_geojson(edges, output_dir / "graph_debug.geojson") completes.
ExportDebug ==
    /\ main_pc = "exported"
    /\ disk' = [disk EXCEPT !["graph_debug.geojson"] = debug_document(edges)]
    /\ main_pc' = "done"
    /\ UNCHANGED <<buildVars, sampleVars, loadVars, roads, trails>>

\* open(output_path, "w") or json.dump raises.
ExportDebugFails(created) ==
    /\ main_pc = "exported"
    /\ disk' = IF created THEN [disk EXCEPT !["graph_debug.geojson"] = Partial] ELSE disk
    /\ main_pc' = "aborted"
    /\ UNCHANGED <<buildVars, sampleVars, loadVars, roads, trails>>

NextMain ==
    \/ ReadLayers
    \/ ReadFails
    \/ Noderize(unary_union(gdf_raw))
    \/ Join
    \/ Elevate
    \/ SnapReturn
    \/ BuildFromMain
    \/ ExportFlatbuffer
    \/ \E created \in BOOLEAN : ExportFlatbufferFails(created)
    \/ ExportDebug
    \/ \E created \in BOOLEAN : ExportDebugFails(created)

SpecMain == InitMain /\ [][NextMain]_vars

\* main has ended with an exception.
Aborted == main_pc = "aborted" \/ load_pc \in {"IOError", "IndexError"}

----------------------------------------------------------------------------
(* Vocabulary of the properties *)

\* The two endpoint coordinates of row i: s = 1 the first vertex, s = 2 the last.
Endpoint(i, s) ==
    LET c == gdf[i].geometry IN IF s = 1 THEN c[1] ELSE c[Len(c)]

\* The planar coordinates rounded at 5 decimal places.
RoundedXY(c) == <<round5(c[1]), round5(c[2])>>

\* The endpoints in the order build_graph meets them: position 2i-1 is the
\* first vertex of row i, position 2i its last vertex.
Positions == 1..(2 * Len(gdf))

EndpointAt(p) == Endpoint((p + 1) \div 2, 2 - (p % 2))

\* The id get_node_id returned for the endpoint at position p.
IdAt(p) == endpoint_ids[(p + 1) \div 2][2 - (p % 2)]

\* The rounded planar coordinates met, by position.
KeyAt == [p \in Positions |-> RoundedXY(EndpointAt(p))]

\* A row whose first and last vertex snap to the same node.
Degenerate(row) ==
    RoundedXY(row.geometry[1]) = RoundedXY(row.geometry[Len(row.geometry)])

NotDegenerate(row) == ~Degenerate(row)

KeptRows == SelectSeq(gdf, NotDegenerate)

Last(s) == s[Len(s)]

----------------------------------------------------------------------------
(* Properties *)

\* C1: two endpoint coordinates processed by build_graph have the same node id
\* if and only if their (x, y) round to the same value at 5 decimals, whatever
\* their elevations are.
C1_SameIdIffSameRoundedXY ==
    LET key == KeyAt
    IN  \A p \in Positions, q \in Positions :
            (IdAt(p) = IdAt(q)) <=> (key[p] = key[q])

\* Two endpoints of different elevation and different raw x share an id, and two
\* others received different ids.
C1_Witness ==
    /\ \E p \in Positions, q \in Positions :
          /\ EndpointAt(p)[3] # EndpointAt(q)[3]
          /\ EndpointAt(p)[1] # EndpointAt(q)[1]
          /\ IdAt(p) = IdAt(q)
    /\ \E p \in Positions, q \in Positions : IdAt(p) # IdAt(q)

\* C2: the ids of the node table are exactly 0..N-1 for N the number of distinct
\* keys seen, and a key first met earlier (start before end within a row) has
\* the smaller id.
C2_DenseIdsInFirstSeenOrder ==
    LET key == KeyAt
        seen == { key[p] : p \in Positions }
        N == Cardinality(seen)
        first == [k \in seen |->
                    CHOOSE p \in Positions :
                        key[p] = k /\ \A q \in 1..(p - 1) : key[q] # k]
    IN  /\ DOMAIN nodes = 0..(N - 1)
        /\ DOMAIN node_index = seen
        /\ { node_index[k] : k \in DOMAIN node_index } = 0..(N - 1)
        /\ next_node_id = N
        /\ \A k1 \in seen, k2 \in seen :
              first[k1] < first[k2] => node_index[k1] < node_index[k2]

\* Three keys have ids, and the second row met a key the first row had met.
C2_Witness ==
    /\ Len(gdf) = 2
    /\ next_node_id = 3
    /\ \E p \in {1, 2}, q \in {3, 4} : KeyAt[p] = KeyAt[q]

\* C3: the edge list holds no edge for a row whose endpoints snap to the same
\* node and exactly one edge for every other row, in input order.
C3_DegenerateDroppedOthersKeptInOrder ==
    /\ Len(edges) = Len(KeptRows)
    /\ \A j \in 1..Len(edges) : edges[j].geometry = KeptRows[j].geometry

\* A row with coinciding endpoints was skipped and a later row became an edge.
C3_Witness ==
    /\ Len(gdf) = 2
    /\ Degenerate(gdf[1])
    /\ gdf[1].geometry[1] # gdf[1].geometry[Len(gdf[1].geometry)]
    /\ Len(edges) = 1

\* C4: for every edge, the last forward measure (D, A, L) and the last reverse
\* measure (D, L, A) agree on distance and swap ascent and descent, and D is
\* the planar length of the geometry.
C4_ReverseSwapsAscentDescent ==
    \A j \in 1..Len(edges) :
        LET f == Last(edges[j].measures_forward)
            r == Last(edges[j].measures_reverse)
        IN  /\ r = <<f[1], f[3], f[2]>>
            /\ f[1] = geom_length(edges[j].geometry)

\* An edge with an interior vertex whose total ascent and descent differ and
\* are both positive.
C4_Witness ==
    \E j \in 1..Len(edges) :
        LET f == Last(edges[j].measures_forward)
        IN  /\ Len(edges[j].geometry) = 3
            /\ f[2] > 0 /\ f[3] > 0 /\ f[2] # f[3]
            /\ f[1] > 0

\* C5: for every edge, the forward and the reverse measure sequence have one
\* entry per vertex of the geometry.
C5_OneMeasurePerVertex ==
    \A j \in 1..Len(edges) :
        /\ Len(edges[j].measures_forward) = Len(edges[j].geometry)
        /\ Len(edges[j].measures_reverse) = Len(edges[j].geometry)

\* Edges of two and of three vertices exist.
C5_Witness ==
    /\ \E j \in 1..Len(edges) : Len(edges[j].geometry) = 2
    /\ \E j \in 1..Len(edges) : Len(edges[j].geometry) = 3

\* The trail type factor as the specification words it, over FactorDen.
SpecTrailFactor(row) ==
    IF row.highway = "path" \/ row.highway = "track" \/ row.highway = "footway"
    THEN 5 ELSE FactorDen

\* C6: every retained edge has weight length * trail_type_factor *
\* priority_factor with trail_type_factor 0.5 exactly for highway path, track
\* or footway and priority_factor 0.1 or 1.0; a length-100 path without the
\* main-trail flag weighs 50.
C6_WeightFormula ==
    LET kept == KeptRows
    IN  \A j \in 1..Len(edges) :
            LET row == kept[j]
                length == geom_length(row.geometry)
                base == length * SpecTrailFactor(row)
            IN  /\ edges[j].weight \in {base * 1, base * FactorDen}
                /\ (/\ length = 100
                    /\ row.highway = "path"
                    /\ row.main_trail \in {Absent, "no"})
                   => edges[j].weight = 50 * FactorDen * FactorDen

\* Edges exist for a footway, for a length-100 path without the flag and for a
\* value that is not in the table.
C6_Witness ==
    /\ Len(edges) = 2
    /\ KeptRows[1].highway = "footway"
    /\ KeptRows[2].highway = "path" /\ KeptRows[2].main_trail = Absent
    /\ geom_length(KeptRows[2].geometry) = 100
    /\ edges[2].weight = 50 * FactorDen * FactorDen

\* The flag values that mean "true" in a string or boolean column.
TruthyFlag(row) == row.main_trail \in {"yes", BoolTrue}

\* C7 (as claimed): the priority factor is 0.1 whenever the flag is set to a
\* truthy value, string or boolean, and 1.0 otherwise.
C7_Original_TruthyFlagGetsPriority ==
    LET kept == KeptRows
    IN  \A j \in 1..Len(edges) :
            LET row == kept[j]
                base == geom_length(row.geometry) * SpecTrailFactor(row)
            IN  edges[j].weight = base * (IF TruthyFlag(row) THEN 1 ELSE FactorDen)

\* C7 (amended): the priority factor is 0.1 exactly when the flag is the string
\* "yes", and 1.0 for every other value: "no", a boolean (True included), a
\* missing value, an absent column.
C7_PriorityOnlyForYesString ==
    LET kept == KeptRows
    IN  \A j \in 1..Len(edges) :
            LET row == kept[j]
                base == geom_length(row.geometry) * SpecTrailFactor(row)
            IN  edges[j].weight =
                    base * (IF row.main_trail = "yes" THEN 1 ELSE FactorDen)

\* One edge carries the flag "yes" and another the boolean True.
C7_Witness ==
    /\ Len(edges) = 2
    /\ KeptRows[1].main_trail = "yes"
    /\ edges[1].weight = geom_length(KeptRows[1].geometry) * SpecTrailFactor(KeptRows[1])
    /\ KeptRows[2].main_trail = BoolTrue
    /\ edges[2].weight = edges[1].weight * FactorDen

\* Whether the computed row or column of the vertex lies outside the raster.
OutOfExtent(v) ==
    LET rc == rowcol(v[1], v[2])
    IN  rc[1] < 0 \/ rc[1] >= DemHeight \/ rc[2] < 0 \/ rc[2] >= DemWidth

\* C8: in add_z_to_lines a vertex whose computed row or column lies outside the
\* raster extent receives elevation 0 and no error is raised.
C8_OutOfExtentVertexGetsZero ==
    /\ z_status # "IndexError"
    /\ \A i \in 1..Len(z_out) : \A v \in 1..Len(z_out[i]) :
          OutOfExtent(z_out[i][v]) => z_out[i][v][3] = 0

\* C9: every vertex whose sampled cell holds the declared nodata value receives
\* z = 0 and never the sentinel, every vertex whose sampled cell holds another
\* value receives that value, and a line inside the extent raises no error.
C9_NodataBecomesZeroOthersExact ==
    /\ \A i \in 1..Len(z_out) : \A v \in 1..Len(z_out[i]) :
          LET p == z_out[i][v]
              cell == dem[rowcol(p[1], p[2])]
          IN  /\ nodata # << >> => p[3] # nodata[1]
              /\ ~OutOfExtent(p) =>
                    p[3] = (IF nodata # << >> /\ cell = nodata[1] THEN 0 ELSE cell)
    /\ z_status = "IndexError" =>
          \E v \in 1..Len(Last(z_in)) : OutOfExtent(Last(z_in)[v])
    /\ Len(z_out) = Len(z_in) - (IF z_status = "IndexError" THEN 1 ELSE 0)

\* A sampled line inside the extent with one vertex on a nodata cell, which got
\* 0, and one vertex on an elevation, which got it.
C9_Witness ==
    /\ nodata = <<DemNodata>>
    /\ \E i \in 1..Len(z_out) :
          /\ \A v \in 1..Len(z_out[i]) : ~OutOfExtent(z_out[i][v])
          /\ \E v \in 1..Len(z_out[i]) :
                /\ dem[rowcol(z_out[i][v][1], z_out[i][v][2])] = DemNodata
                /\ z_out[i][v][3] = 0
          /\ \E v \in 1..Len(z_out[i]) :
                /\ dem[rowcol(z_out[i][v][1], z_out[i][v][2])] # DemNodata
                /\ z_out[i][v][3] = Elevation(rowcol(z_out[i][v][1], z_out[i][v][2]))

\* The planar vertices of a line.
XY(line) == [i \in 1..Len(line) |-> <<line[i][1], line[i][2]>>]

\* A split segment that is contained within no original feature.
Unmatched(g) == \A k \in 1..Len(gdf_raw) : ~within(g, gdf_raw[k].geometry)

RowsOf(g) == { i \in 1..Len(load_gdf) : XY(load_gdf[i].geometry) = XY(g) }

Trunc5(v) == v \div Ulp5

\* Two coordinates that differ, if at all, only beyond the 5th decimal place of
\* x and of y.
SameTo5thDecimal(c, d) == Trunc5(c[1]) = Trunc5(d[1]) /\ Trunc5(c[2]) = Trunc5(d[2])

\* C13 (as claimed): two endpoint coordinates that differ only beyond the 5th
\* decimal place receive one node id, and two that differ at the 5th decimal
\* place or coarser receive two distinct ids.
C13_Original_FifthDecimalDecidesId ==
    \A p \in Positions, q \in Positions :
        /\ SameTo5thDecimal(EndpointAt(p), EndpointAt(q)) => IdAt(p) = IdAt(q)
        /\ ~SameTo5thDecimal(EndpointAt(p), EndpointAt(q)) => IdAt(p) # IdAt(q)

\* C13 (amended): two endpoint coordinates whose x and y each round to the same
\* value at 5 decimals receive one node id, and two of which x or y rounds to
\* different values receive two distinct ids; in particular two coordinates
\* more than 1e-5 apart in x or y never share an id, and two that share an id
\* are at most 1e-5 apart in x and in y.
C13_RoundedValueDecidesId ==
    \A p \in Positions, q \in Positions :
        LET c == EndpointAt(p)
            d == EndpointAt(q)
        IN  /\ (round5(c[1]) = round5(d[1]) /\ round5(c[2]) = round5(d[2]))
                  => IdAt(p) = IdAt(q)
            /\ (round5(c[1]) # round5(d[1]) \/ round5(c[2]) # round5(d[2]))
                  => IdAt(p) # IdAt(q)
            /\ (abs(c[1] - d[1]) > Ulp5 \/ abs(c[2] - d[2]) > Ulp5)
                  => IdAt(p) # IdAt(q)
            /\ IdAt(p) = IdAt(q)
                  => (abs(c[1] - d[1]) <= Ulp5 /\ abs(c[2] - d[2]) <= Ulp5)

\* Two coordinates that differ in the 6th decimal only have two ids, two that
\* differ in the 5th decimal share one, and two are more than 1e-5 apart.
C13_Witness ==
    /\ \E p \in Positions, q \in Positions :
          /\ SameTo5thDecimal(EndpointAt(p), EndpointAt(q))
          /\ IdAt(p) # IdAt(q)
    /\ \E p \in Positions, q \in Positions :
          /\ ~SameTo5thDecimal(EndpointAt(p), EndpointAt(q))
          /\ IdAt(p) = IdAt(q)
    /\ \E p \in Positions, q \in Positions :
          abs(EndpointAt(p)[1] - EndpointAt(q)[1]) > Ulp5

\* The planar length of a line once its vertices are snapped to 5 decimals.
SnappedLength(coords) ==
    geom_length([i \in 1..Len(coords) |-> RoundedXY(coords[i])])

\* C18: every segment handed to build_graph that has positive planar length
\* (before and after snapping), a closed loop included, yields an edge.
C18_PositiveLengthSegmentYieldsEdge ==
    \A i \in 1..Len(gdf) :
        (geom_length(gdf[i].geometry) > 0 /\ SnappedLength(gdf[i].geometry) > 0)
            => \E j \in 1..Len(edges) : edges[j].geometry = gdf[i].geometry

\* The edges that start or end at node n.
IncidentEdges(n) == { j \in 1..Len(edges) : edges[j].start = n \/ edges[j].end = n }

\* The rows iterated of which an endpoint resolved to node n.
TouchingRows(n) ==
    { i \in 1..Len(gdf) : endpoint_ids[i][1] = n \/ endpoint_ids[i][2] = n }

\* C19 (as claimed): every node id of the node table is the start or end node
\* of at least one edge.
C19_Original_EveryNodeHasIncidentEdge ==
    \A n \in DOMAIN nodes : IncidentEdges(n) # {}

\* C19 (amended): every node id of the node table is the id of an endpoint of a
\* segment processed, and it is the start or end node of at least one edge
\* unless every segment that touches it was discarded as degenerate.
C19_NodeHasEdgeUnlessOnlyDegenerateSegments ==
    \A n \in DOMAIN nodes :
        /\ TouchingRows(n) # {}
        /\ (IncidentEdges(n) = {})
              <=> (\A i \in TouchingRows(n) : endpoint_ids[i][1] = endpoint_ids[i][2])

\* A discarded degenerate segment left a node without an edge, and another
\* segment became an edge between two other nodes.
C19_Witness ==
    /\ \E n \in DOMAIN nodes : IncidentEdges(n) = {}
    /\ \E n \in DOMAIN nodes : IncidentEdges(n) # {}

\* C20: in every state of build_graph, the start and end id of every edge are
\* keys of the node table and differ, and G holds an adjacency between two ids
\* exactly when an edge of the list joins them.
C20_EdgesJoinDistinctNodesAndMatchG ==
    /\ \A j \in 1..Len(edges) :
          /\ edges[j].start \in DOMAIN nodes
          /\ edges[j].end \in DOMAIN nodes
          /\ edges[j].start # edges[j].end
    /\ \A a \in DOMAIN nodes, b \in DOMAIN nodes :
          ({a, b} \in DOMAIN G)
              <=> (\E j \in 1..Len(edges) : {edges[j].start, edges[j].end} = {a, b})
    /\ \A pair \in DOMAIN G : pair \subseteq DOMAIN nodes

\* Two edges that share a node: G holds two adjacencies over three nodes.
C20_Witness ==
    /\ Len(edges) = 2
    /\ Cardinality(DOMAIN G) = 2
    /\ Cardinality(DOMAIN nodes) = 3

\* C11: after a run of main that aborted with a fatal error, at whatever step,
\* no graph.bin exists on disk, complete or partial.
C11_AbortLeavesNoGraphArtifact ==
    Aborted => disk["graph.bin"] = Missing

\* The features of the debug document that hold a geometry of the given type.
DebugFeatures(type) ==
    LET fs == disk["graph_debug.geojson"].features
    IN  { i \in 1..Len(fs) : fs[i].geometry.type = type }

\* C12: the debug document written holds exactly one point feature per node of
\* the node table, with properties id and elevation, and exactly one line
\* feature per edge of the edge list, with properties start, end and weight.
C12_DebugDocumentHasNodePointsAndEdgeLines ==
    main_pc = "done" =>
        LET fs == disk["graph_debug.geojson"].features
        IN  /\ Cardinality(DebugFeatures("Point")) = Cardinality(DOMAIN nodes)
            /\ \A n \in DOMAIN nodes :
                  \E i \in DebugFeatures("Point") :
                      fs[i].properties = [id |-> n, elevation |-> nodes[n][3]]
            /\ Cardinality(DebugFeatures("LineString")) = Len(edges)
            /\ \A j \in 1..Len(edges) :
                  \E i \in DebugFeatures("LineString") :
                      fs[i].properties = [start |-> edges[j].start, end |-> edges[j].end,
                                          weight |-> edges[j].weight]

\* The features of the two layer files, roads first.
LayerFeatures == roads \o trails

\* The simple lines a layer feature stands for, with its tags.
LinesOf(f) ==
    IF f.geometry.type \in {"LineString", "MultiLineString"}
    THEN { [geometry |-> f.geometry.parts[n], highway |-> f.highway,
            main_trail |-> f.main_trail] : n \in 1..Len(f.geometry.parts) }
    ELSE {}

\* C14: the normalised collection of the loader holds, for every multi-part
\* line of the layers, one simple line per part with the attributes of its
\* parent, holds every simple line of the layers, and holds no feature that
\* comes from a point or a polygon.
C14_LoaderExplodesLinesAndDropsOthers ==
    load_pc \notin {"open", "IOError"} =>
        /\ \A k \in 1..Len(LayerFeatures) :
              \A row \in LinesOf(LayerFeatures[k]) :
                  \E i \in 1..Len(gdf_raw) : gdf_raw[i] = row
        /\ \A i \in 1..Len(gdf_raw) :
              \E k \in 1..Len(LayerFeatures) : gdf_raw[i] \in LinesOf(LayerFeatures[k])
        /\ Len(gdf_raw) =
              Cardinality(UNION { { <<k, n>> : n \in 1..Len(LayerFeatures[k].geometry.parts) }
                                  : k \in { h \in 1..Len(LayerFeatures) :
                                              LinesOf(LayerFeatures[h]) # {} } })

\* A two-part line and a point or polygon were read; the frame holds the two
\* parts, each with the parent's tags, and nothing else.
C14_Witness ==
    /\ load_pc = "read"
    /\ \E k \in 1..Len(LayerFeatures) : LayerFeatures[k].geometry.type = "MultiLineString"
    /\ \E k \in 1..Len(LayerFeatures) : LayerFeatures[k].geometry.type \in {"Point", "Polygon"}
    /\ Len(gdf_raw) = 2
    /\ gdf_raw[1].highway = gdf_raw[2].highway
    /\ gdf_raw[1].geometry # gdf_raw[2].geometry

\* C15: the buffer written to graph.bin decodes to the graph: one node record
\* per entry of the node table and one edge record per edge, in the same order,
\* each with the same id, x, y, z, respectively start, end, weight, geometry
\* and forward and reverse measures.
C15_FlatbufferRoundTrip ==
    main_pc \in {"exported", "done"} =>
        LET buf == disk["graph.bin"]
        IN  /\ Len(buf.nodes) = Cardinality(DOMAIN nodes)
            /\ \A n \in 1..Len(buf.nodes) :
                  read_node(buf, n) = <<n - 1, nodes[n - 1]>>
            /\ Len(buf.edges) = Len(edges)
            /\ \A j \in 1..Len(buf.edges) : read_edge(buf, j) = edges[j]

\* A graph of several nodes and edges was written, one of its fields (the id
\* of node 0) being left out of its table as a default.
C15_Witness ==
    /\ main_pc = "exported"
    /\ Len(edges) >= 3
    /\ Cardinality(DOMAIN nodes) >= 4
    /\ disk["graph.bin"].nodes[1].id = << >>
    /\ \E j \in 1..Len(edges) : edges[j].weight # edges[1].weight

\* The end points of a line.
Ends(g) == {<<g[1][1], g[1][2]>>, <<g[Len(g)][1], g[Len(g)][2]>>}

\* The normalised frame holds the lines A and B of the example and no other.
CrossExample == { gdf_raw[k].geometry : k \in 1..Len(gdf_raw) } = {LineA, LineB}

\* C16: no two segments of the noderization meet except at an end point of
\* both; for the crossing lines A and B it yields exactly 4 segments that all
\* end at the crossing point, and the pipeline turns them into 4 edges at one
\* shared node there.
C16_NoderizationSplitsAtCrossings ==
    /\ load_pc \in {"noded", "joined"} =>
          /\ \A i \in 1..Len(split_geoms), j \in 1..Len(split_geoms) :
                i # j =>
                    /\ split_geoms[i] # split_geoms[j]
                    /\ \A p \in MeetingPoints({split_geoms[i], split_geoms[j]}) :
                          (/\ on_segment(p, split_geoms[i][1], split_geoms[i][2])
                           /\ on_segment(p, split_geoms[j][1], split_geoms[j][2]))
                          => (p \in Ends(split_geoms[i]) /\ p \in Ends(split_geoms[j]))
          /\ CrossExample =>
                /\ Len(split_geoms) = 4
                /\ \A i \in 1..4 : <<10, 0>> \in Ends(split_geoms[i])
    /\ (CrossExample /\ BuildDone) =>
          /\ Len(edges) = 4
          /\ <<10, 0>> \in DOMAIN node_index
          /\ \A j \in 1..4 : node_index[<<10, 0>>] \in {edges[j].start, edges[j].end}
          /\ Cardinality(DOMAIN nodes) = 5

\* The example ran to the end of build_graph: 4 edges.
C16_Witness ==
    /\ CrossExample
    /\ BuildDone
    /\ Len(edges) = 4
    /\ Len(roads) = 1 /\ Len(trails) = 1

\* No two rows of the frame hold the same geometry.
DistinctGeometries(rows) ==
    \A i \in 1..Len(rows), j \in 1..Len(rows) :
        i # j => rows[i].geometry # rows[j].geometry

\* C17 (as claimed): in the frame load_data returns, after the join, the
\* sampling and the snapping, no two segments have identical geometry, and the
\* edge list never holds two edges with the same vertex sequence.
C17_Original_ReturnedSegmentsDistinct ==
    /\ load_pc = "returned" => DistinctGeometries(load_gdf)
    /\ DistinctGeometries(edges)

\* C17 (amended): the frame holds no two segments of identical geometry when
\* drop_duplicates has run, one row per split segment, and until the snapping;
\* two segments of the returned frame, and two edges, have identical geometry
\* only when two different split segments snap to the same vertices.
C17_DistinctUntilSnapping ==
    /\ load_pc \in {"joined", "sampled"} =>
          /\ DistinctGeometries(load_gdf)
          /\ Len(load_gdf) = Len(split_geoms)
          /\ \A i \in 1..Len(load_gdf) : XY(load_gdf[i].geometry) = split_geoms[i]
    /\ load_pc = "returned" =>
          \A i \in 1..Len(load_gdf), j \in 1..Len(load_gdf) :
              (i # j /\ load_gdf[i].geometry = load_gdf[j].geometry) =>
                  \E s \in 1..Len(split_geoms), t \in 1..Len(split_geoms) :
                      /\ split_geoms[s] # split_geoms[t]
                      /\ XY(snap_and_ensure_3d(split_geoms[s])) = XY(load_gdf[i].geometry)
                      /\ XY(snap_and_ensure_3d(split_geoms[t])) = XY(load_gdf[i].geometry)
    /\ \A i \in 1..Len(edges), j \in 1..Len(edges) :
          (i # j /\ edges[i].geometry = edges[j].geometry) =>
              \E s \in 1..Len(split_geoms), t \in 1..Len(split_geoms) :
                  /\ split_geoms[s] # split_geoms[t]
                  /\ XY(snap_and_ensure_3d(split_geoms[s])) = XY(edges[i].geometry)
                  /\ XY(snap_and_ensure_3d(split_geoms[t])) = XY(edges[i].geometry)

\* Two segments that differed before the snapping are two edges of the same
\* vertex sequence.
C17_Witness ==
    /\ BuildDone
    /\ Len(edges) = 2
    /\ edges[1].geometry = edges[2].geometry
    /\ split_geoms[1] # split_geoms[2]

\* A measure sequence m taken along the vertices coords: it starts with
\* (0, 0, 0), no component decreases from an entry to the next, and a step
\* without elevation change leaves ascent and descent as they were.
MonotoneMeasures(m, coords) ==
    /\ m[1] = <<0, 0, 0>>
    /\ \A i \in 1..(Len(m) - 1) :
          /\ \A c \in 1..3 : m[i][c] <= m[i + 1][c]
          /\ coords[i + 1][3] = coords[i][3]
                => (m[i + 1][2] = m[i][2] /\ m[i + 1][3] = m[i][3])

\* C21: the forward and the reverse measure sequence of every edge start with
\* (0, 0, 0), their distance, ascent and descent never decrease from one entry
\* to the next, and a step with zero elevation change leaves ascent and descent
\* unchanged.
C21_MeasuresStartAtZeroAndNeverDecrease ==
    \A j \in 1..Len(edges) :
        /\ MonotoneMeasures(edges[j].measures_forward, edges[j].geometry)
        /\ MonotoneMeasures(edges[j].measures_reverse, Reverse(edges[j].geometry))

\* One edge is a level step of positive length, and another climbs and then
\* descends, so that its reverse descends and then climbs.
C21_Witness ==
    /\ \E j \in 1..Len(edges) :
          /\ Len(edges[j].geometry) = 2
          /\ edges[j].geometry[1][3] = edges[j].geometry[2][3]
          /\ Last(edges[j].measures_forward)[1] > 0
          /\ Last(edges[j].measures_forward)[2] = 0
          /\ Last(edges[j].measures_forward)[3] = 0
    /\ \E j \in 1..Len(edges) :
          /\ Len(edges[j].geometry) = 3
          /\ edges[j].measures_forward[2][2] > 0
          /\ edges[j].measures_forward[3][3] > 0
          /\ edges[j].measures_reverse[2][2] > 0
          /\ edges[j].measures_reverse[3][3] > edges[j].measures_reverse[2][3]

====
